---- MODULE Spec2Model ----
(***************************************************************************)
(* Model of modupdate.py: the Modrinth mod auto-updater.                   *)
(*                                                                         *)
(* One process scans the mod folder, and for each .jar archive extracts    *)
(* the mod id, resolves a slug (cache or operator prompt), asks the remote *)
(* registry for the latest version, downloads it, validates the id of the  *)
(* downloaded file, rekeys the cache when the id changed and removes the   *)
(* original archive.  The tool may be run several times; a run may be      *)
(* interrupted at any point.                                               *)
(***************************************************************************)
EXTENDS Naturals, Sequences, FiniteSets, TLC

(***************************************************************************)
(* Bounds and value domains                                                *)
(***************************************************************************)

\* Number of times the tool is started in one behaviour.
MaxRuns == 2

\* Python's None, and the marker of a path that does not exist.
None == "None"
NoFile == "NoFile"

\* Mod identifiers that manifests carry.
Ids == {"a", "b"}

\* Archive contents.  An archive is identified by what its manifest holds:
\* an id, or nothing readable ("corrupt": not a zip, no fabric.mod.json,
\* invalid JSON, or no "id" field).
Contents == Ids \cup {"corrupt"}

\* Project slugs.
Slugs == {"s", "t"}

\* Names in the mod folder: archives present at the start, names the
\* registry hands out, and a file that is not an archive.
LocalNames == {"x.jar", "y.jar"}
RemoteNames == {"y.jar", "z.jar"}
OtherNames == {"notes.txt"}
FileNames == LocalNames \cup RemoteNames \cup OtherNames

\* What the operator may type at the prompt.
Inputs ==
    {<<"s", "k", "i", "p">>, <<"S", "K", "I", "P">>, <<>>, <<"s">>,
     <<" ", "t", " ">>}

\* Outcomes of the network calls.
QueryNets == {"200", "error"}
DownloadResponses ==
    [kind : {"200"}, body : Contents]
        \cup {[kind |-> "error", body |-> "corrupt"],
              [kind |-> "writefail", body |-> "corrupt"]}

(***************************************************************************)
(* Mappings (Python dicts)                                                 *)
(***************************************************************************)

EmptyMap == [k \in {} |-> None]

\* Variant: the assignment on a fresh dict.
Put_only(m, k, v) == [x \in {k} |-> v]

Put(m, k, v) == [x \in (DOMAIN m) \cup {k} |-> IF x = k THEN v ELSE m[x]]

Del(m, k) == [x \in (DOMAIN m) \ {k} |-> m[x]]

\* Variant: a lookup that never finds the key.
cache_get_miss(m, k) == None

\* dict.get(k): the value, or None.
cache_get(m, k) == IF k \in DOMAIN m THEN m[k] ELSE None

\* Python truthiness of the values the program tests with "not".
Falsy(v) == v \in {None, ""}

(***************************************************************************)
(* The cache file                                                          *)
(***************************************************************************)

\* json.dump writes every key as a string: None becomes "null".
KeyStr(k) == IF k = None THEN "null" ELSE k

\* The mapping json.load gives back for the text json.dump(cache) writes.
\* A dict that holds both the key "null" (loaded from a file) and the key
\* None writes "null" twice; "null" was inserted first (it can only come
\* from the load), and json.load keeps the last of two equal keys.
json_dump(c) ==
    [k \in {KeyStr(x) : x \in DOMAIN c} |->
        IF k = "null"
        THEN (IF None \in DOMAIN c THEN c[None] ELSE c["null"])
        ELSE c[k]]

\* The cache file: absent, a JSON object, or truncated by an open(.., "w")
\* that was not followed by the dump.
AbsentFile == [st |-> "absent", m |-> EmptyMap]
TruncatedFile == [st |-> "partial", m |-> EmptyMap]
JsonFile(m) == [st |-> "ok", m |-> m]

load_cache(d) == IF d.st = "absent" THEN EmptyMap ELSE d.m

(***************************************************************************)
(* Pure functions of the program                                           *)
(***************************************************************************)

\* The archive by its class: what get_mod_id_from_jar returns for it.
get_mod_id_from_jar(content) ==
    IF content \in Ids THEN content ELSE None

\* get_mod_id_from_jar on the entries of an archive.  An entry name is the
\* sequence of its path components; a Python value is tagged with its type.
PyNone == [t |-> "none", v |-> ""]
Str(x) == [t |-> "str", v |-> x]
Int5 == [t |-> "int", v |-> "5"]

\* How a call ends: with a value, or with an exception.
Return(x) == [exc |-> "", val |-> x]
Raise(e) == [exc |-> e, val |-> PyNone]

\* No archive given, no call made.
NoJar == [zip |-> FALSE, entries |-> <<>>]
NotCalled == [called |-> FALSE, read |-> 0, ret |-> PyNone, raised |-> FALSE]

\* x.count("/")
count_slash(name) == Len(name) - 1

\* name.endswith("fabric.mod.json")
endswith_manifest(name) ==
    name[Len(name)] \in {"fabric.mod.json", "old_fabric.mod.json"}

namelist(z) == [i \in 1..Len(z.entries) |-> z.entries[i].name]

candidates(z) == SelectSeq(namelist(z), endswith_manifest)

\* list.sort(key=..) is stable: a name goes after the names of the same
\* count that came before it.
RECURSIVE insort(_, _)
insort(x, q) ==
    IF q = <<>> THEN <<x>>
    ELSE IF count_slash(Head(q)) <= count_slash(x)
         THEN <<Head(q)>> \o insort(x, Tail(q))
         ELSE <<x>> \o q

RECURSIVE sort_by_count(_)
sort_by_count(q) ==
    IF q = <<>> THEN <<>>
    ELSE insort(q[Len(q)], sort_by_count(SubSeq(q, 1, Len(q) - 1)))

\* z.open(name): ZipFile looks a name up in NameToInfo, which holds the
\* last entry of the central directory that carries the name.
z_open(z, name) ==
    CHOOSE i \in 1..Len(z.entries) :
        /\ z.entries[i].name = name
        /\ \A j \in (i + 1)..Len(z.entries) : z.entries[j].name # name

\* json5.loads(text): the document, or ValueError.
json5_loads(doc) ==
    IF doc.kind = "invalid" THEN Raise("ValueError") ELSE Return(doc)

\* json5.load(f): the bytes are decoded as UTF-8 first.
json5_load(p) ==
    IF ~p.utf8 THEN Raise("UnicodeDecodeError") ELSE json5_loads(p.doc)

\* data.get("id"): a document that is not an object has no get.
data_get_id(data) ==
    IF data.kind # "object" THEN Raise("AttributeError")
    ELSE IF data.has THEN Return(data.id) ELSE Return(PyNone)

\* The inner try: json5.load, and json5.loads of the latin-1 text after a
\* UnicodeDecodeError.  json5 reports a syntax error as ValueError, which
\* neither "except json.JSONDecodeError" catches.
read_manifest(p) ==
    LET d1 == json5_load(p)
        d2 == json5_loads(p.doc)
    IN  IF d1.exc = "UnicodeDecodeError"
        THEN (IF d2.exc # "" THEN d2 ELSE data_get_id(d2.val))
        ELSE (IF d1.exc # "" THEN d1 ELSE data_get_id(d1.val))

\* except Exception: .. ; return None
except_Exception(r) == IF r.exc # "" THEN Return(PyNone) ELSE r

extract(z) ==
    LET c == candidates(z)
        i == z_open(z, sort_by_count(c)[1])
        body == IF ~z.zip
                THEN [read |-> 0, r |-> Raise("BadZipFile")]
                ELSE IF c = <<>>
                     THEN [read |-> 0, r |-> Return(PyNone)]
                     ELSE [read |-> i, r |-> read_manifest(z.entries[i].data)]
        r == except_Exception(body.r)
    IN  [called |-> TRUE, read |-> body.read, ret |-> r.val,
         raised |-> (r.exc # "")]

\* A line of input is a sequence of characters.
IsSpace(c) == c = " "

RECURSIVE lstrip(_)
lstrip(raw) ==
    IF raw # <<>> /\ IsSpace(Head(raw)) THEN lstrip(Tail(raw)) ELSE raw

RECURSIVE rstrip(_)
rstrip(raw) ==
    IF raw # <<>> /\ IsSpace(raw[Len(raw)])
    THEN rstrip(SubSeq(raw, 1, Len(raw) - 1))
    ELSE raw

\* Variant: only the leading blanks are removed.
strip_left(raw) == lstrip(raw)

\* str.strip()
strip(raw) == rstrip(lstrip(raw))

LowerChar(c) ==
    CASE c = "S" -> "s"
      [] c = "K" -> "k"
      [] c = "I" -> "i"
      [] c = "P" -> "p"
      [] OTHER -> c

\* str.lower()
lower(s) == [i \in 1..Len(s) |-> LowerChar(s[i])]

\* The string a sequence of characters spells: the slugs of the model by
\* their names, every other non-empty text as a slug the registry does not
\* know.
FromChars(r) ==
    CASE r = <<>> -> ""
      [] r = <<"s">> -> "s"
      [] r = <<"t">> -> "t"
      [] OTHER -> "other"

prompt_for_slug(raw) ==
    LET slug == strip(raw)
    IN  IF lower(slug) # <<"s", "k", "i", "p">>
        THEN FromChars(slug)
        ELSE None

EndsWithJar(f) == f \in {"x.jar", "y.jar", "z.jar"}

\* All orders in which os.listdir may return a set of names.
Perms(S) ==
    {q \in [1..Cardinality(S) -> S] :
        \A i, j \in 1..Cardinality(S) : q[i] = q[j] => i = j}

(***************************************************************************)
(* State                                                                   *)
(***************************************************************************)

VARIABLES
    fs,            \* the mod folder: name -> content, or NoFile
    disk,          \* the cache file
    remote,        \* the registry: slug -> filename of the first file, or None
    run,           \* number of runs started
    pc,            \* position of the process
    cache,         \* main: cache
    files,         \* main: files
    idx,           \* number of archives the loop has taken from files
    file,          \* main: file
    mod_id,        \* main: mod_id
    slug,          \* main: slug
    filename,      \* main: filename
    new_id,        \* main: new_id
    updated_mods,  \* main: updated_mods
    completed,     \* the progress task's completed count
    outcomes,      \* history: <<file, outcome>> at every progress advance
    slugFrom,      \* history: where the slug of this archive came from
    cache0,        \* history: cache when this archive was taken
    disk0,         \* history: cache file when this archive was taken
    produced,      \* history: names written by downloads of this run
    nget,          \* history: requests.get calls of download_file, this run
    prev,          \* history: the previous run: completed?, its produced set
    typed,         \* prompt_for_slug: the line input() returned
    jar,           \* get_mod_id_from_jar: the archive at jar_path
    ext            \* get_mod_id_from_jar: the entry read and what was returned

vars == <<fs, disk, remote, run, pc, cache, files, idx, file, mod_id, slug,
          filename, new_id, updated_mods, completed, outcomes, slugFrom,
          cache0, disk0, produced, nget, prev, typed, jar, ext>>

\* The state of the calls that are examined on their own.
aux == <<typed, jar, ext>>

Running == {"loop", "prompt", "save_upsert", "query", "download",
            "validate", "save_rekey", "remove"}

Stopped == {"idle", "nofiles", "done", "crashed", "failed"}

\* Folders at the start.  The model is symmetric in the two ids and in the
\* two slugs, so one representative of each pair of mirrored start states
\* is enough: x.jar does not carry "b", and the registry's answer for "s"
\* does not come after its answer for "t" in the order None, y.jar, z.jar.
InitFolders ==
    {f \in [FileNames -> Contents \cup {NoFile}] :
        /\ f["x.jar"] # "b"
        /\ f["z.jar"] = NoFile
        /\ f["notes.txt"] = "corrupt"}

InitCaches ==
    {AbsentFile} \cup
    {JsonFile(m) : m \in UNION {[D -> Slugs] : D \in SUBSET Ids}}

InitRemotes ==
    {r \in [Slugs -> RemoteNames \cup {None}] :
        \/ r["s"] = None
        \/ r["t"] = "z.jar"
        \/ r["s"] = r["t"]}

Init ==
    /\ fs \in InitFolders
    /\ disk \in InitCaches
    /\ remote \in InitRemotes
    /\ run = 0
    /\ pc = "idle"
    /\ cache = EmptyMap
    /\ files = <<>>
    /\ idx = 0
    /\ file = None
    /\ mod_id = None
    /\ slug = None
    /\ filename = None
    /\ new_id = None
    /\ updated_mods = <<>>
    /\ completed = 0
    /\ outcomes = <<>>
    /\ slugFrom = "none"
    /\ cache0 = EmptyMap
    /\ disk0 = disk
    /\ produced = {}
    /\ nget = 0
    /\ prev = [done |-> FALSE, produced |-> {}]
    /\ typed = <<>>
    /\ jar = NoJar
    /\ ext = NotCalled

(***************************************************************************)
(* Actions                                                                 *)
(***************************************************************************)

\* The loop's exit of one archive: progress.update(task, advance=1).
Advance(f, what) ==
    /\ outcomes' = Append(outcomes, <<f, what>>)
    /\ completed' = completed + 1

\* main, up to the loop: load_cache, os.listdir.
StartRun ==
    /\ UNCHANGED aux
    /\ pc \in Stopped
    /\ run < MaxRuns
    /\ run' = run + 1
    /\ prev' = [done |-> (pc = "done"),
                produced |-> IF pc = "done" THEN produced ELSE {}]
    /\ produced' = {}
    /\ nget' = 0
    /\ updated_mods' = <<>>
    /\ completed' = 0
    /\ outcomes' = <<>>
    /\ idx' = 0
    /\ file' = None
    /\ mod_id' = None
    /\ slug' = None
    /\ filename' = None
    /\ new_id' = None
    /\ slugFrom' = "none"
    /\ disk0' = disk
    /\ IF disk.st = "partial"
       THEN /\ pc' = "failed"
            /\ cache' = EmptyMap
            /\ cache0' = EmptyMap
            /\ files' = <<>>
       ELSE /\ cache' = load_cache(disk)
            /\ cache0' = load_cache(disk)
            /\ \E order \in Perms({f \in FileNames :
                                     fs[f] # NoFile /\ EndsWithJar(f)}) :
                  /\ files' = order
                  /\ pc' = IF order = <<>> THEN "nofiles" ELSE "loop"
    /\ UNCHANGED <<fs, disk, remote>>

\* for file in files: get_mod_id_from_jar, the unreadable branch (which has
\* no continue), and slug = cache.get(mod_id).
NextArchive ==
    /\ UNCHANGED aux
    /\ pc = "loop"
    /\ idx < Len(files)
    /\ LET f == files[idx + 1]
           m == get_mod_id_from_jar(fs[f])
           s == cache_get(cache, m)
       IN  /\ idx' = idx + 1
           /\ file' = f
           /\ mod_id' = m
           /\ IF Falsy(m)
              THEN Advance(f, "skipped-unreadable")
              ELSE UNCHANGED <<outcomes, completed>>
           /\ slug' = s
           /\ IF Falsy(s)
              THEN pc' = "prompt" /\ slugFrom' = "none"
              ELSE pc' = "query" /\ slugFrom' = "hit"
    /\ filename' = None
    /\ new_id' = None
    /\ cache0' = cache
    /\ disk0' = disk
    /\ UNCHANGED <<fs, disk, remote, run, cache, files, updated_mods,
                   produced, nget, prev>>

\* Variant: the assignment with key and value exchanged.
upsert_swapped(c, id, s) == Put(c, s, id)

\* cache[mod_id] = slug
upsert(c, id, s) == Put(c, id, s)

\* slug = prompt_for_slug(..); skip, or cache[mod_id] = slug and the
\* open(CACHE_FILE, "w") of save_cache.
PromptWith(raw) ==
    /\ pc = "prompt"
    /\ LET s == prompt_for_slug(raw)
       IN  /\ slug' = s
           /\ IF Falsy(s)
              THEN /\ Advance(file, "skipped-by-operator")
                   /\ pc' = "loop"
                   /\ UNCHANGED <<cache, disk, slugFrom>>
              ELSE /\ cache' = upsert(cache, mod_id, s)
                   /\ disk' = TruncatedFile
                   /\ slugFrom' = "prompt"
                   /\ pc' = "save_upsert"
                   /\ UNCHANGED <<outcomes, completed>>
    /\ UNCHANGED <<jar, ext>>
    /\ UNCHANGED <<fs, remote, run, files, idx, file, mod_id, filename,
                   new_id, updated_mods, cache0, disk0, produced, nget,
                   prev>>

\* The operator answers the prompt with one of the lines of Inputs.
Prompt == \E raw \in Inputs : PromptWith(raw) /\ UNCHANGED typed

\* json.dump(cache, f) of save_cache.
SaveCache ==
    /\ UNCHANGED aux
    /\ pc \in {"save_upsert", "save_rekey"}
    /\ disk' = JsonFile(json_dump(cache))
    /\ pc' = IF pc = "save_upsert" THEN "query" ELSE "remove"
    /\ UNCHANGED <<fs, remote, run, cache, files, idx, file, mod_id, slug,
                   filename, new_id, updated_mods, completed, outcomes,
                   slugFrom, cache0, disk0, produced, nget, prev>>

\* versions[0]["files"][0]["filename"] of the answer, or None.
get_latest_version(s, net) ==
    IF net = "200" THEN remote[s] ELSE None

\* version_data = get_latest_version(slug, game_version)
Query ==
    /\ UNCHANGED aux
    /\ pc = "query"
    /\ \E net \in QueryNets :
          LET v == get_latest_version(slug, net)
          IN  IF Falsy(v)
              THEN /\ Advance(file, "no-compatible-version")
                   /\ pc' = "loop"
                   /\ UNCHANGED filename
              ELSE /\ filename' = v
                   /\ pc' = "download"
                   /\ UNCHANGED <<outcomes, completed>>
    /\ UNCHANGED <<fs, disk, remote, run, cache, files, idx, file, mod_id,
                   slug, new_id, updated_mods, slugFrom, cache0, disk0,
                   produced, nget, prev>>

\* Variant: no os.path.exists(dest) test before the request.
download_file_overwrite(dest, resp) ==
    IF resp.kind = "200"
    THEN [ret |-> "True", fs |-> [fs EXCEPT ![dest] = resp.body], get |-> 1]
    ELSE IF resp.kind = "writefail"
         THEN [ret |-> "False", fs |-> [fs EXCEPT ![dest] = "corrupt"],
               get |-> 1]
         ELSE [ret |-> "False", fs |-> fs, get |-> 1]

\* download_file(url, dest): the value returned, the folder afterwards and
\* whether requests.get was called.
download_file(dest, resp) ==
    IF fs[dest] # NoFile
    THEN [ret |-> "I", fs |-> fs, get |-> 0]
    ELSE IF resp.kind = "200"
         THEN [ret |-> "True", fs |-> [fs EXCEPT ![dest] = resp.body],
               get |-> 1]
         ELSE IF resp.kind = "writefail"
              THEN [ret |-> "False", fs |-> [fs EXCEPT ![dest] = "corrupt"],
                    get |-> 1]
              ELSE [ret |-> "False", fs |-> fs, get |-> 1]

\* downresp = download_file(download_url, dest_path) and its two exits.
Download ==
    /\ UNCHANGED aux
    /\ pc = "download"
    /\ \E resp \in DownloadResponses :
          LET r == download_file(filename, resp)
          IN  /\ fs' = r.fs
              /\ nget' = nget + r.get
              /\ IF r.ret = "I"
                 THEN /\ Advance(file, "already-present")
                      /\ pc' = "loop"
                      /\ UNCHANGED produced
                 ELSE IF r.ret = "False"
                      THEN /\ Advance(file, "download-failed")
                           /\ pc' = "loop"
                           /\ UNCHANGED produced
                      ELSE /\ pc' = "validate"
                           /\ produced' = produced \cup {filename}
                           /\ UNCHANGED <<outcomes, completed>>
    /\ UNCHANGED <<disk, remote, run, cache, files, idx, file, mod_id, slug,
                   filename, new_id, updated_mods, slugFrom, cache0, disk0,
                   prev>>

\* Variant: the comparison inverted.
validate_mod_id_inverted(new_jar, expected_id) ==
    LET n == get_mod_id_from_jar(fs[new_jar])
    IN  [new_id |-> n, valid |-> (n # expected_id)]

\* validate_mod_id(new_jar, expected_id)
validate_mod_id(new_jar, expected_id) ==
    LET n == get_mod_id_from_jar(fs[new_jar])
    IN  [new_id |-> n, valid |-> (n = expected_id)]

\* Variant: the cache is rebuilt with the new entry alone.
rekey_clear(c, old, new, s) == [x \in {new} |-> s]

\* cache[new_id] = slug; del cache[mod_id]
rekey(c, old, new, s) == Del(Put(c, new, s), old)

\* new_id, valid = validate_mod_id(..); the rekey and the open(.., "w") of
\* its save_cache.
Validate ==
    /\ UNCHANGED aux
    /\ pc = "validate"
    /\ LET v == validate_mod_id(filename, mod_id)
       IN  /\ new_id' = v.new_id
           /\ IF ~v.valid
              THEN /\ cache' = rekey(cache, mod_id, v.new_id, slug)
                   /\ disk' = TruncatedFile
                   /\ pc' = "save_rekey"
              ELSE /\ pc' = "remove"
                   /\ UNCHANGED <<cache, disk>>
    /\ UNCHANGED <<fs, remote, run, files, idx, file, mod_id, slug, filename,
                   updated_mods, completed, outcomes, slugFrom, cache0,
                   disk0, produced, nget, prev>>

\* Variant: the pair is recorded with its components exchanged.
Remove_swapped ==
    /\ UNCHANGED aux
    /\ pc = "remove"
    /\ fs' = [fs EXCEPT ![file] = NoFile]
    /\ updated_mods' = Append(updated_mods, <<filename, file>>)
    /\ Advance(file, IF new_id = mod_id
                     THEN "updated"
                     ELSE "identity-mismatch-but-replaced")
    /\ pc' = "loop"
    /\ UNCHANGED <<disk, remote, run, cache, files, idx, file, mod_id, slug,
                   filename, new_id, slugFrom, cache0, disk0, produced, nget,
                   prev>>

\* os.remove(path); updated_mods.append(..); progress.update(..)
Remove ==
    /\ UNCHANGED aux
    /\ pc = "remove"
    /\ fs' = [fs EXCEPT ![file] = NoFile]
    /\ updated_mods' = Append(updated_mods, <<file, filename>>)
    /\ Advance(file, IF new_id = mod_id
                     THEN "updated"
                     ELSE "identity-mismatch-but-replaced")
    /\ pc' = "loop"
    /\ UNCHANGED <<disk, remote, run, cache, files, idx, file, mod_id, slug,
                   filename, new_id, slugFrom, cache0, disk0, produced, nget,
                   prev>>

\* The loop is exhausted: the update summary is printed.
Summary ==
    /\ UNCHANGED aux
    /\ pc = "loop"
    /\ idx = Len(files)
    /\ pc' = "done"
    /\ UNCHANGED <<fs, disk, remote, run, cache, files, idx, file, mod_id,
                   slug, filename, new_id, updated_mods, completed, outcomes,
                   slugFrom, cache0, disk0, produced, nget, prev>>

\* The process is interrupted: what it held in memory is gone, the mod
\* folder and the cache file stay as they are.
Crash ==
    /\ UNCHANGED aux
    /\ pc \in Running
    /\ pc' = "crashed"
    /\ cache' = EmptyMap
    /\ files' = <<>>
    /\ idx' = 0
    /\ file' = None
    /\ mod_id' = None
    /\ slug' = None
    /\ filename' = None
    /\ new_id' = None
    /\ updated_mods' = <<>>
    /\ completed' = 0
    /\ outcomes' = <<>>
    /\ slugFrom' = "none"
    /\ cache0' = EmptyMap
    /\ disk0' = disk
    /\ produced' = {}
    /\ nget' = 0
    /\ UNCHANGED <<fs, disk, remote, run, prev>>

Next ==
    \/ StartRun
    \/ NextArchive
    \/ Prompt
    \/ SaveCache
    \/ Query
    \/ Download
    \/ Validate
    \/ Remove
    \/ Summary
    \/ Crash

Spec == Init /\ [][Next]_vars

(***************************************************************************)
(* prompt_for_slug on its own: main has taken x.jar, found no slug for it  *)
(* in the cache and calls prompt_for_slug; the operator types any line of  *)
(* at most MaxInputLen characters.                                         *)
(***************************************************************************)

MaxInputLen == 5

Chars == {" ", "s", "k", "i", "p", "S", "t"}

TypedInputs == UNION {[1..n -> Chars] : n \in 0..MaxInputLen}

InitPrompt ==
    /\ fs \in {f \in [FileNames -> Contents \cup {NoFile}] :
                  /\ f["x.jar"] \in {"a", "corrupt"}
                  /\ f["y.jar"] = NoFile
                  /\ f["z.jar"] = NoFile
                  /\ f["notes.txt"] = "corrupt"}
    /\ disk \in {AbsentFile, JsonFile([b |-> "t"])}
    /\ remote = [s |-> "z.jar", t |-> None]
    /\ run = 1
    /\ pc = "prompt"
    /\ cache = load_cache(disk)
    /\ files = <<"x.jar">>
    /\ idx = 1
    /\ file = "x.jar"
    /\ mod_id = get_mod_id_from_jar(fs["x.jar"])
    /\ slug = None
    /\ filename = None
    /\ new_id = None
    /\ updated_mods = <<>>
    /\ completed = (IF Falsy(mod_id) THEN 1 ELSE 0)
    /\ outcomes = (IF Falsy(mod_id)
                   THEN <<<<"x.jar", "skipped-unreadable">>>>
                   ELSE <<>>)
    /\ slugFrom = "none"
    /\ cache0 = cache
    /\ disk0 = disk
    /\ produced = {}
    /\ nget = 0
    /\ prev = [done |-> FALSE, produced |-> {}]
    /\ typed \in TypedInputs
    /\ jar = NoJar
    /\ ext = NotCalled

\* slug = prompt_for_slug(..) on the line the operator typed.
PromptTyped == PromptWith(typed) /\ UNCHANGED typed

NextPrompt == PromptTyped

SpecPrompt == InitPrompt /\ [][NextPrompt]_vars

(***************************************************************************)
(* get_mod_id_from_jar on its own: it is called on any archive of at most  *)
(* MaxEntries entries.                                                     *)
(***************************************************************************)

MaxEntries == 2

EntryNames ==
    {<<"fabric.mod.json">>, <<"META-INF", "fabric.mod.json">>,
     <<"old_fabric.mod.json">>, <<"assets", "icon.png">>}

IdValues == {Str("a"), Str("b"), Str(""), Int5, PyNone}

Docs ==
    {[kind |-> k, has |-> FALSE, id |-> PyNone] :
        k \in {"invalid", "array", "object"}}
    \cup {[kind |-> "object", has |-> TRUE, id |-> v] : v \in IdValues}

Payloads == [utf8 : BOOLEAN, doc : Docs]

Entries == [name : EntryNames, data : Payloads]

Archives ==
    {NoJar} \cup
    {[zip |-> TRUE, entries |-> e] :
        e \in UNION {[1..n -> Entries] : n \in 0..MaxEntries}}

InitExtract ==
    /\ fs = [f \in FileNames |-> IF f = "notes.txt" THEN "corrupt" ELSE NoFile]
    /\ disk = AbsentFile
    /\ remote = [s |-> None, t |-> None]
    /\ run = 0
    /\ pc = "idle"
    /\ cache = EmptyMap
    /\ files = <<>>
    /\ idx = 0
    /\ file = None
    /\ mod_id = None
    /\ slug = None
    /\ filename = None
    /\ new_id = None
    /\ updated_mods = <<>>
    /\ completed = 0
    /\ outcomes = <<>>
    /\ slugFrom = "none"
    /\ cache0 = EmptyMap
    /\ disk0 = disk
    /\ produced = {}
    /\ nget = 0
    /\ prev = [done |-> FALSE, produced |-> {}]
    /\ typed = <<>>
    /\ jar \in Archives
    /\ ext = NotCalled

\* mod_id = get_mod_id_from_jar(path)
ExtractCall ==
    /\ ~ext.called
    /\ ext' = extract(jar)
    /\ UNCHANGED <<fs, disk, remote, run, pc, cache, files, idx, file,
                   mod_id, slug, filename, new_id, updated_mods, completed,
                   outcomes, slugFrom, cache0, disk0, produced, nget, prev,
                   typed, jar>>

NextExtract == ExtractCall

SpecExtract == InitExtract /\ [][NextExtract]_vars

(***************************************************************************)
(* Properties                                                              *)
(***************************************************************************)

LastOutcome ==
    IF outcomes = <<>> THEN "none" ELSE outcomes[Len(outcomes)][2]

\* The archive last taken from files has left the loop body with `what`.
Exited(what) == pc = "loop" /\ idx > 0 /\ LastOutcome = what

SkippedOutcomes == {"skipped-unreadable", "skipped-by-operator",
                    "no-compatible-version", "already-present",
                    "download-failed"}

ReplacedOutcomes == {"updated", "identity-mismatch-but-replaced"}

\* The cache as the slug resolution leaves it: the cache the archive started
\* with, plus mod_id -> slug when the operator supplied the slug.
CacheAfterResolution ==
    IF slugFrom = "prompt"
    THEN [k \in (DOMAIN cache0) \cup {mod_id} |->
             IF k = mod_id THEN slug ELSE cache0[k]]
    ELSE cache0

DiskAfterResolution ==
    IF slugFrom = "prompt"
    THEN JsonFile(json_dump(CacheAfterResolution))
    ELSE disk0

\* C1: while the archive in hand is one the extractor returned no identifier
\* for, the reconciler is back at the loop head (SKIPPED) with no lookup, no
\* prompt, no query and no download made, the cache in memory and on disk as
\* they were, and the original file still there.
C1_UnreadableGoesStraightToSkipped ==
    (pc \in Running /\ idx > 0 /\ Falsy(mod_id)) =>
        /\ pc = "loop"
        /\ cache = cache0
        /\ disk = disk0
        /\ fs[file] # NoFile

\* C2 as stated: when the resolver returns absent the original file is
\* retained and the cache, in memory and on disk, is what it was when the
\* archive's reconciliation began, also when the slug came from the prompt.
C2_NoCacheMutationWhenAbsent ==
    (Exited("no-compatible-version") /\ ~Falsy(mod_id)) =>
        /\ fs[file] # NoFile
        /\ cache = cache0
        /\ disk = disk0

\* C2 amended: when the resolver returns absent the original file is
\* retained and the cache is as the slug resolution left it: unchanged on a
\* cache hit, and with the one entry mod_id -> slug added and persisted when
\* the slug came from the operator prompt.
C2_AbsentKeepsFileAndResolvedCache ==
    Exited("no-compatible-version") =>
        /\ fs[file] # NoFile
        /\ cache = CacheAfterResolution
        /\ disk = DiskAfterResolution

C2_Witness ==
    /\ Exited("no-compatible-version")
    /\ slugFrom = "prompt"
    /\ mod_id \in Ids
    /\ DOMAIN cache0 # {}

\* C3: an original archive is gone only after its download succeeded and
\* the extractor was re-run on the new file, and every archive that took a
\* SKIPPED exit in this run (unreadable included) still exists.
C3_DeletedOnlyAfterValidatedDownload ==
    /\ \A i \in 1..Len(outcomes) :
          outcomes[i][2] \in SkippedOutcomes => fs[outcomes[i][1]] # NoFile
    /\ (pc \in Running /\ idx > 0 /\ fs[file] = NoFile) =>
          /\ pc = "loop"
          /\ filename \in produced
          /\ fs[filename] # NoFile
          /\ new_id = get_mod_id_from_jar(fs[filename])

\* C4: once the identifier of the downloaded file differs from the original
\* one, from before the original is deleted the cache in memory and the
\* cache file no longer hold the old identifier and hold the new identifier
\* mapped to the same slug.
C4_RekeyedInMemoryAndOnDisk ==
    ((pc = "remove" \/ (pc = "loop" /\ idx > 0
                          /\ LastOutcome \in ReplacedOutcomes))
        /\ new_id # mod_id) =>
        /\ mod_id \notin DOMAIN cache
        /\ new_id \in DOMAIN cache
        /\ cache[new_id] = slug
        /\ disk.st = "ok"
        /\ mod_id \notin DOMAIN load_cache(disk)
        /\ new_id \in DOMAIN load_cache(disk)
        /\ load_cache(disk)[new_id] = slug
        /\ (pc = "remove" => fs[file] # NoFile)

\* C5 as stated: after a successful reconciliation with an unchanged
\* identifier the cache holds no key it did not hold when the reconciliation
\* began, the original file is gone and the new file exists.
C5_NoNewKeyAfterUpdate ==
    (Exited("updated") /\ ~Falsy(mod_id)) =>
        /\ DOMAIN cache \subseteq DOMAIN cache0
        /\ fs[file] = NoFile
        /\ fs[filename] # NoFile

\* C5 amended: after a successful reconciliation with an unchanged
\* identifier the validation has added no key: the cache, in memory and on
\* disk, is as the slug resolution left it (the cache at the start of the
\* reconciliation, plus mod_id -> slug when the operator supplied the slug),
\* the original file is gone and the new file exists.
C5_UpdateKeepsResolvedCache ==
    Exited("updated") =>
        /\ cache = CacheAfterResolution
        /\ disk = DiskAfterResolution
        /\ fs[file] = NoFile
        /\ fs[filename] # NoFile

C5_Witness ==
    /\ Exited("updated")
    /\ mod_id \in Ids
    /\ slugFrom = "hit"
    /\ file # filename

\* C6: in a run that follows a completed run, an archive the first run
\* produced gets no further than the download step's presence test: the
\* operator is not asked, nothing is downloaded or deleted for it and the
\* cache, in memory and on disk, stays what it was.
C6_SecondRunIsIdempotent ==
    (prev.done /\ pc \in Running /\ idx > 0 /\ file \in prev.produced) =>
        /\ pc \in {"query", "download", "loop"}
        /\ cache = cache0
        /\ disk = disk0
        /\ fs[file] # NoFile
        /\ nget = 0

\* C7: a download step that finds the destination present ends the archive
\* as already-present: no request, no file written or deleted, no update
\* recorded, and the loop goes on.
C7_AlreadyPresentShortCircuits ==
    [][(pc = "download" /\ fs[filename] # NoFile /\ pc' # "crashed") =>
          /\ pc' = "loop"
          /\ outcomes' = Append(outcomes, <<file, "already-present">>)
          /\ nget' = nget
          /\ fs' = fs
          /\ updated_mods' = updated_mods
          /\ cache' = cache
          /\ disk' = disk]_vars

C7_Witness ==
    /\ Exited("already-present")
    /\ filename # file
    /\ fs[file] # NoFile
    /\ nget = 0

\* C8: wherever the process may be interrupted, the cache file holds every
\* mapping it held when the archive in hand was taken, other than those of
\* the identifiers of that archive and of its download.
C8_CrashKeepsConfirmedMappings ==
    pc \in Running =>
        \A k \in (DOMAIN load_cache(disk0)) \ {mod_id, new_id} :
            /\ disk.st # "partial"
            /\ k \in DOMAIN load_cache(disk)
            /\ load_cache(disk)[k] = load_cache(disk0)[k]

\* C9: at the start of every externally visible step (prompt, remote query,
\* download, deletion of the original, next archive) the mapping the cache
\* file holds equals the mapping in memory.
C9_PersistedEqualsInMemory ==
    pc \in {"loop", "prompt", "query", "download", "remove"} =>
        /\ disk.st # "partial"
        /\ load_cache(disk) = cache

\* C10: when the run ends with the summary, every archive of the listing has
\* reached DONE or SKIPPED exactly once, in listing order.
C10_EveryArchiveExitsOnce ==
    pc = "done" =>
        /\ Len(outcomes) = Len(files)
        /\ \A i \in 1..Len(outcomes) :
              /\ i <= Len(files)
              /\ outcomes[i][1] = files[i]
              /\ outcomes[i][2] \in SkippedOutcomes \cup ReplacedOutcomes

\* The names os.listdir returned at the start of the run.
Listed == {files[i] : i \in 1..Len(files)}

\* C11 as stated makes an archive's outcome independent of the other
\* archives of the folder.  In a folder that holds no other archive the
\* destination of an archive can be present only when it is the archive
\* itself, so the claim implies: an archive exits as already-present only
\* when its destination is the archive itself.
C11_OutcomeIndependentOfOtherArchives ==
    Exited("already-present") => filename = file

\* C11 amended: an archive's path depends on the other archives only
\* through the cache and the folder as they are when the archive is taken:
\* it is prompted for exactly when the cache then holds no entry for its
\* identifier, a cached slug is the one that entry holds, it exits as
\* already-present only with its destination present, and it is replaced
\* only by a file downloaded in this run under another name.
C11_DependsOnlyThroughCacheAndFolder ==
    (pc \in Running /\ idx > 0) =>
        /\ (slugFrom = "hit") <=> (mod_id \in DOMAIN cache0)
        /\ (slugFrom = "hit" => slug = cache0[mod_id])
        /\ (Exited("already-present") => fs[filename] # NoFile)
        /\ ((pc = "loop" /\ LastOutcome \in ReplacedOutcomes) =>
               filename \in produced /\ filename # file)

C11_Witness ==
    /\ Exited("already-present")
    /\ filename # file
    /\ filename \in produced
    /\ slugFrom = "hit"
    /\ mod_id \in Ids

\* C12: an archive with identifier i that the cache does not hold, for which
\* the operator supplies slug s, the registry names a file that is not in
\* the folder and the download carries the same identifier: afterwards the
\* original file is deleted, the new file exists with identifier i, and the
\* persisted cache is the cache persisted when the archive was taken plus
\* exactly the entry i -> s.
C12_PromptedUpdate ==
    (/\ pc \in {"loop", "done"}
     /\ idx > 0
     /\ LastOutcome = "updated"
     /\ slugFrom = "prompt"
     /\ mod_id \in Ids) =>
        /\ fs[file] = NoFile
        /\ fs[filename] = mod_id
        /\ slug \in Slugs
        /\ remote[slug] = filename
        /\ disk.st = "ok"
        /\ disk.m = [k \in DOMAIN load_cache(disk0) \cup {mod_id} |->
                        IF k = mod_id THEN slug ELSE load_cache(disk0)[k]]

C12_Witness ==
    /\ pc = "done"
    /\ Len(files) = 1
    /\ LastOutcome = "updated"
    /\ slugFrom = "prompt"
    /\ mod_id \in Ids
    /\ mod_id \notin DOMAIN load_cache(disk0)
    /\ DOMAIN load_cache(disk0) # {}
    /\ disk.m[mod_id] = slug

\* C13: every mapping the program holds in memory and saves is reproduced
\* by loading what save_cache writes for it (same keys, same values), and
\* an absent cache file loads as the empty mapping.
C13_SaveLoadRoundTrip ==
    /\ load_cache(AbsentFile) = EmptyMap
    /\ (pc \in Running =>
            load_cache(JsonFile(json_dump(cache))) = cache)

\* "skip" in any letter case.
SkipWords ==
    {<<a, b, c, d>> : a \in {"s", "S"}, b \in {"k", "K"},
                      c \in {"i", "I"}, d \in {"p", "P"}}

\* typed[i..j] is typed without its leading and trailing blanks.
IsCore(i, j) ==
    /\ \A k \in 1..Len(typed) : (k < i \/ k > j) => typed[k] = " "
    /\ IF i <= j
       THEN typed[i] # " " /\ typed[j] # " "
       ELSE i = Len(typed) + 1 /\ j = Len(typed)

\* The operator's skip as main handles it.
SkippedByOperator ==
    /\ Exited("skipped-by-operator")
    /\ cache = cache0
    /\ disk = disk0
    /\ fs[file] # NoFile

\* C15 as stated (under SpecPrompt): prompt_for_slug returns absent exactly
\* when the line typed is "skip" in some letter case, and every other
\* non-empty line as it was typed; when the operator skips, the archive
\* exits as skipped with the cache unchanged, no query and the file kept.
C15_AbsentExactlyOnSentinel ==
    pc # "prompt" =>
        /\ (slug = None) <=> (typed \in SkipWords)
        /\ (typed \notin SkipWords /\ typed # <<>> =>
                slug = FromChars(typed))
        /\ (typed \in SkipWords => SkippedByOperator)

\* C15 amended (under SpecPrompt): prompt_for_slug returns absent exactly
\* when the line typed, without its leading and trailing blanks, is "skip"
\* in some letter case, and otherwise returns the line without those
\* blanks; when that is "skip" or empty the archive exits as skipped with
\* the cache unchanged, no query and the file kept, and otherwise the slug
\* is entered in the cache under the archive's identifier.
C15_AbsentOnStrippedSentinel ==
    pc # "prompt" =>
        \E i \in 1..(Len(typed) + 1), j \in 0..Len(typed) :
            /\ IsCore(i, j)
            /\ LET core == SubSeq(typed, i, j)
               IN  /\ (slug = None) <=> (core \in SkipWords)
                   /\ (core \notin SkipWords => slug = FromChars(core))
                   /\ IF core \in SkipWords \cup {<<>>}
                      THEN SkippedByOperator
                      ELSE /\ pc = "save_upsert"
                           /\ mod_id \in DOMAIN cache
                           /\ cache[mod_id] = slug
                           /\ \A k \in DOMAIN cache0 \ {mod_id} :
                                  k \in DOMAIN cache /\ cache[k] = cache0[k]

C15_Witness ==
    /\ SkippedByOperator
    /\ slug = None
    /\ typed = <<" ", "S", "k", "i", "p">>
    /\ mod_id \in Ids

\* C14 (under SpecExtract): for every archive the call returns a non-empty
\* identifier string or absent, and no exception leaves it.
C14_NonEmptyIdentifierOrAbsent ==
    ext.called =>
        /\ ~ext.raised
        /\ \/ ext.ret = PyNone
           \/ ext.ret.t = "str" /\ ext.ret.v # ""

\* The entries whose name ends with the manifest suffix.
Matching == {i \in 1..Len(jar.entries) : endswith_manifest(jar.entries[i].name)}

\* C16 (under SpecExtract): the entry read is, among the entries whose name
\* ends with the manifest suffix, one with the fewest separators, and among
\* those the first in the archive's entry order; with no such entry the
\* call returns absent.
C16_ShallowestFirstEntryIsRead ==
    (ext.called /\ jar.zip) =>
        IF Matching = {}
        THEN ext.read = 0 /\ ext.ret = PyNone
        ELSE /\ ext.read \in Matching
             /\ \A j \in Matching :
                   LET cr == count_slash(jar.entries[ext.read].name)
                       cj == count_slash(jar.entries[j].name)
                   IN  cr <= cj /\ (cr = cj => ext.read <= j)

\* The exits of the run that completed a replacement, in order.
ReplacedExits ==
    SelectSeq(outcomes, LAMBDA o : o[2] \in ReplacedOutcomes)

\* The last exit recorded for an archive of the run.
LastOutcomeOf(f) ==
    LET I == {i \in 1..Len(outcomes) : outcomes[i][1] = f}
    IN  outcomes[CHOOSE i \in I : \A j \in I : j <= i][2]

\* C17: at the end of a run the summary lists exactly the completed
\* updates: one pair per archive that left the loop replaced, in processing
\* order, whose first component is an archive of the folder and whose
\* second is a file this run downloaded under another name and that
\* exists; an archive whose file is gone has a pair, and an archive that
\* ended skipped has none and still has its file.
C17_SummaryListsCompletedUpdates ==
    pc = "done" =>
        /\ Len(updated_mods) = Len(ReplacedExits)
        /\ \A i \in 1..Len(updated_mods) :
              /\ updated_mods[i][1] = ReplacedExits[i][1]
              /\ updated_mods[i][1] \in Listed
              /\ updated_mods[i][2] \in produced
              /\ updated_mods[i][2] # updated_mods[i][1]
              /\ fs[updated_mods[i][2]] # NoFile
              /\ \A j \in 1..Len(updated_mods) :
                    updated_mods[i][1] = updated_mods[j][1] => i = j
        /\ \A f \in Listed :
              /\ fs[f] = NoFile =>
                    \E i \in 1..Len(updated_mods) : updated_mods[i][1] = f
              /\ LastOutcomeOf(f) \in SkippedOutcomes =>
                    /\ fs[f] # NoFile
                    /\ \A i \in 1..Len(updated_mods) : updated_mods[i][1] # f

C17_Witness ==
    /\ pc = "done"
    /\ Len(updated_mods) = 1
    /\ Len(files) = 2
    /\ files[2] = updated_mods[1][1]
    /\ LastOutcomeOf(files[1]) \in SkippedOutcomes

\* C18: the progress counter is advanced once per archive: the completed
\* count never exceeds the number of archives taken so far nor the total,
\* and it equals the total when the loop has ended.
C18_ProgressOncePerArchive ==
    (pc \in Running \cup {"done"}) =>
        /\ completed <= idx
        /\ completed <= Len(files)
        /\ (pc = "done" => completed = Len(files))

\* C19: every key of the cache, in memory and persisted, is a non-empty
\* identifier string; the absent identifier is never a key, nor is what
\* json.dump writes for it.
C19_KeysAreIdentifiers ==
    /\ DOMAIN cache \subseteq Ids
    /\ DOMAIN load_cache(disk) \subseteq Ids

\* The identifiers of the archive in hand: the one extracted from it and,
\* once the download has been validated, the one extracted from the
\* downloaded file.
OwnIds ==
    {mod_id} \cup
    (IF \/ pc \in {"save_rekey", "remove"}
        \/ (pc = "loop" /\ LastOutcome \in ReplacedOutcomes)
     THEN {new_id}
     ELSE {})

\* m and m0 hold the same entries outside the keys K.
SameOutside(m, m0, K) ==
    \A k \in (DOMAIN m \cup DOMAIN m0) \ K :
        k \in DOMAIN m /\ k \in DOMAIN m0 /\ m[k] = m0[k]

\* C20: while one archive is reconciled, the cache differs from the cache
\* at the moment the archive was taken at most in the entries keyed by the
\* archive's own identifier and by the identifier extracted from its
\* downloaded file (in the cache file, whenever a save has completed, in
\* the entries json.dump writes for these two), and a step changes no file
\* other than the archive and its destination file.
C20_OnlyOwnEntriesAndFilesChange ==
    [][/\ (pc' \in Running /\ idx' > 0) =>
              /\ SameOutside(cache', cache0', OwnIds')
              /\ (disk'.st # "partial" =>
                     SameOutside(load_cache(disk'), load_cache(disk0'),
                                 {KeyStr(k) : k \in OwnIds'}))
       /\ (pc \in Running /\ pc' \in Running) =>
              \A f \in FileNames \ {file', filename'} : fs'[f] = fs[f]
      ]_vars

C20_Witness ==
    /\ Exited("identity-mismatch-but-replaced")
    /\ mod_id \in Ids
    /\ new_id \in Ids
    /\ DOMAIN cache0 = Ids
    /\ slugFrom = "hit"
    /\ cache0[new_id] # slug
    /\ load_cache(disk)[new_id] = slug
    /\ Len(files) = 2

====
